---- MODULE Spec2Model ----
(***************************************************************************)
(* A model of the wiki engine of motioneffector/wiki: the slug normalizer, *)
(* the link scanner, the forward/reverse link indexes kept by createWiki() *)
(* and the operations that maintain them.                                  *)
(*                                                                         *)
(* Strings are sequences of characters; a character is a one-token string. *)
(* The tokens "e_acute" / "E_acute" stand for U+00E9 / U+00C9 and "acute"  *)
(* for the combining mark U+0301 that NFD splits them into.                *)
(***************************************************************************)
EXTENDS Naturals, Sequences, FiniteSets, TLC

\* ------------------------------------------------------------------------
\* Characters
\* ------------------------------------------------------------------------

NL == "\n"

\* the backtick, U+0060 (a token: the lexer takes no backtick in a string)
BT == "bt"

IsLetter(c) == c \in {"A", "B", "E", "a", "b", "e", "g", "p", "E_acute", "e_acute"}

IsDigit(c) == c \in {"0", "1", "2", "3", "4", "5", "6", "7", "8", "9"}

IsSpace(c) == c \in {" ", NL}

IsCombining(c) == c = "acute"

\* String.prototype.toLowerCase, one character
LowerChar(c) ==
    CASE c = "A" -> "a"
      [] c = "B" -> "b"
      [] c = "E" -> "e"
      [] c = "E_acute" -> "e_acute"
      [] OTHER -> c

\* String.prototype.normalize('NFD'), one character
NFDChar(c) ==
    CASE c = "e_acute" -> <<"e", "acute">>
      [] c = "E_acute" -> <<"E", "acute">>
      [] OTHER -> <<c>>

\* ------------------------------------------------------------------------
\* Strings
\* ------------------------------------------------------------------------

RECURSIVE FlatMap(_, _)
FlatMap(F(_), s) ==
    IF s = <<>> THEN <<>> ELSE F(Head(s)) \o FlatMap(F, Tail(s))

Filter(P(_), s) == SelectSeq(s, P)

Contains(s, c) == \E i \in 1..Len(s) : s[i] = c

\* s[i..j] with JS slice clamping
Slice(s, i, j) == IF i > j THEN <<>> ELSE SubSeq(s, i, j)

\* whether t occurs in s at (1-based) position i
StartsAt(s, i, t) ==
    /\ i >= 1
    /\ i + Len(t) - 1 <= Len(s)
    /\ \A k \in 1..Len(t) : s[i + k - 1] = t[k]

RECURSIVE TrimLeft(_)
TrimLeft(s) ==
    IF s # <<>> /\ IsSpace(Head(s)) THEN TrimLeft(Tail(s)) ELSE s

RECURSIVE TrimRight(_)
TrimRight(s) ==
    IF s # <<>> /\ IsSpace(s[Len(s)]) THEN TrimRight(SubSeq(s, 1, Len(s) - 1)) ELSE s

\* String.prototype.trim
Trim(s) == TrimRight(TrimLeft(s))

\* replace(/\s+/g, '-')
RECURSIVE SpacesToHyphen(_)
SpacesToHyphen(s) ==
    IF s = <<>> THEN <<>>
    ELSE IF IsSpace(Head(s))
         THEN <<"-">> \o SpacesToHyphen(TrimLeft(s))
         ELSE <<Head(s)>> \o SpacesToHyphen(Tail(s))

\* replace(/-+/g, '-')
RECURSIVE CollapseHyphens(_)
CollapseHyphens(s) ==
    IF s = <<>> THEN <<>>
    ELSE IF Head(s) = "-" /\ Len(s) > 1 /\ s[2] = "-"
         THEN CollapseHyphens(Tail(s))
         ELSE <<Head(s)>> \o CollapseHyphens(Tail(s))

\* replace(/^-|-$/g, '')
StripEdgeHyphens(s) ==
    LET a == IF s # <<>> /\ Head(s) = "-" THEN Tail(s) ELSE s
    IN  IF a # <<>> /\ a[Len(a)] = "-" THEN SubSeq(a, 1, Len(a) - 1) ELSE a

RECURSIVE Digits(_)
Digits(n) ==
    LET d == <<"0", "1", "2", "3", "4", "5", "6", "7", "8", "9">>[(n % 10) + 1]
    IN  IF n < 10 THEN <<d>> ELSE Digits(n \div 10) \o <<d>>

\* ------------------------------------------------------------------------
\* slugify (src/src/core/wiki.ts 61-73)
\* ------------------------------------------------------------------------

KeepSlugChar(c) == IsLetter(c) \/ IsDigit(c) \/ IsSpace(c) \/ c = "-"

NotCombining(c) == ~IsCombining(c)

LowerOne(c) == <<LowerChar(c)>>

\* the chain of replacements, before the fallback
Normalize(title) ==
    LET lowered  == FlatMap(LowerOne, title)
        trimmed  == Trim(lowered)
        nfd      == FlatMap(NFDChar, trimmed)
        noMarks  == Filter(NotCombining, nfd)
        kept     == Filter(KeepSlugChar, noMarks)
        hyphened == SpacesToHyphen(kept)
        single   == CollapseHyphens(hyphened)
    IN  StripEdgeHyphens(single)

FallbackId(n) == <<"p", "a", "g", "e", "-">> \o Digits(n)

\* return normalized || `page-${nextFallbackId++}`
SlugOr(normalized, n) == IF normalized = <<>> THEN FallbackId(n) ELSE normalized

\* slugify(title) when nextFallbackId = n: the id returned ...
Slugify(title, n) == SlugOr(Normalize(title), n)

\* ... and nextFallbackId afterwards
SlugifyNext(title, n) ==
    IF Normalize(title) = <<>> THEN n + 1 ELSE n

\* ------------------------------------------------------------------------
\* extractLinks (src/unnamed/part_014, the link-extractor module)
\* ------------------------------------------------------------------------

\* number of consecutive characters of s from position i on that satisfy P
RECURSIVE RunLen(_, _, _)
RunLen(P(_), s, i) ==
    IF i <= Len(s) /\ P(s[i]) THEN 1 + RunLen(P, s, i + 1) ELSE 0

\* replace(/'''[\s\S]*?'''/g, '') (' for the backtick) and replace(/~~~[\s\S]*?~~~/g, ''), f the
\* fence character
RECURSIVE RemoveFenced(_, _)
RemoveFenced(s, f) ==
    LET fence == <<f, f, f>>
        closes == {j \in 4..Len(s) : StartsAt(s, j, fence)}
    IN  IF s = <<>> THEN <<>>
        ELSE IF StartsAt(s, 1, fence) /\ closes # {}
             THEN LET j == CHOOSE j \in closes : \A k \in closes : j <= k
                  IN  RemoveFenced(Slice(s, j + 3, Len(s)), f)
             ELSE <<Head(s)>> \o RemoveFenced(Tail(s), f)

NotBacktick(c) == c # BT

NotBacktickNorNewline(c) == c # BT /\ c # NL

\* replace(/''[^']*?''/g, '') (' for the backtick)
RECURSIVE RemoveDoubleBacktick(_)
RemoveDoubleBacktick(s) ==
    LET k == RunLen(NotBacktick, s, 3)
    IN  IF s = <<>> THEN <<>>
        ELSE IF StartsAt(s, 1, <<BT, BT>>) /\ StartsAt(s, 3 + k, <<BT, BT>>)
             THEN RemoveDoubleBacktick(Slice(s, 5 + k, Len(s)))
             ELSE <<Head(s)>> \o RemoveDoubleBacktick(Tail(s))

\* replace(/'[^'\n]*?'/g, '') (' for the backtick)
RECURSIVE RemoveSingleBacktick(_)
RemoveSingleBacktick(s) ==
    LET k == RunLen(NotBacktickNorNewline, s, 2)
    IN  IF s = <<>> THEN <<>>
        ELSE IF Head(s) = BT /\ StartsAt(s, 2 + k, <<BT>>)
             THEN RemoveSingleBacktick(Slice(s, 3 + k, Len(s)))
             ELSE <<Head(s)>> \o RemoveSingleBacktick(Tail(s))

NotNewline(c) == c # NL

\* replace(/^    .*/gm, ''); atStart: position 1 of s is the start of a line
RECURSIVE RemoveIndented(_, _)
RemoveIndented(s, atStart) ==
    IF s = <<>> THEN <<>>
    ELSE IF atStart /\ StartsAt(s, 1, <<" ", " ", " ", " ">>)
         THEN RemoveIndented(Slice(s, 1 + RunLen(NotNewline, s, 1), Len(s)), FALSE)
         ELSE <<Head(s)>> \o RemoveIndented(Tail(s), Head(s) = NL)

removeCodeBlocks(content) ==
    LET r1 == RemoveFenced(content, BT)
        r2 == RemoveFenced(r1, "~")
        r3 == RemoveDoubleBacktick(r2)
        r4 == RemoveSingleBacktick(r3)
    IN  RemoveIndented(r4, TRUE)

NotCloseNorPipe(c) == c # "]" /\ c # "|"

NotClose(c) == c # "]"

\* DEFAULT_LINK_PATTERN = /\[\[([^\]|]+)(?:\|[^\]]+)?\]\]/g tried at position
\* i of s: [ok, cap (group 1), end (the position after the match)]; p is the
\* position after group 1 and q the position after the display text
NoMatch(i) == [ok |-> FALSE, cap |-> <<>>, end |-> i]

PatternTail(s, i, p, q) ==
    IF StartsAt(s, p, <<"]", "]">>)
    THEN [ok |-> TRUE, cap |-> Slice(s, i + 2, p - 1), end |-> p + 2]
    ELSE IF StartsAt(s, p, <<"|">>) /\ q > p + 1 /\ StartsAt(s, q, <<"]", "]">>)
    THEN [ok |-> TRUE, cap |-> Slice(s, i + 2, p - 1), end |-> q + 2]
    ELSE NoMatch(i)

PatternGroup(s, i, p) ==
    IF p = i + 2 THEN NoMatch(i)
    ELSE PatternTail(s, i, p, p + 1 + RunLen(NotClose, s, p + 1))

PatternAt(s, i) ==
    IF ~StartsAt(s, i, <<"[", "[">>) THEN NoMatch(i)
    ELSE PatternGroup(s, i, i + 2 + RunLen(NotCloseNorPipe, s, i + 2))

RECURSIVE StripLeadingBrackets(_)
StripLeadingBrackets(s) ==
    IF s # <<>> /\ Head(s) = "[" THEN StripLeadingBrackets(Tail(s)) ELSE s

\* the body of the exec loop for one match: the links collected so far, with
\* the capture added unless it is skipped; trimmed is match[1].trim()
PushTrimmed(links, trimmed, linkText) ==
    IF Contains(trimmed, NL) THEN links
    ELSE IF linkText # <<>> /\ ~Contains(links, linkText)
         THEN Append(links, linkText)
         ELSE links

PushLink(links, cap) == PushTrimmed(links, Trim(cap), StripLeadingBrackets(Trim(cap)))

\* the exec loop from lastIndex = i - 1
RECURSIVE ScanLinks(_, _, _)
ScanMatch(s, i, links, m) ==
    IF m.ok THEN ScanLinks(s, m.end, PushLink(links, m.cap))
    ELSE ScanLinks(s, i + 1, links)

ScanLinks(s, i, links) ==
    IF i > Len(s) THEN links ELSE ScanMatch(s, i, links, PatternAt(s, i))

extractLinks(content) == ScanLinks(removeCodeBlocks(content), 1, <<>>)

\* ------------------------------------------------------------------------
\* The state of one wiki instance (src/src/core/wiki.ts 50-58)
\* ------------------------------------------------------------------------

VARIABLES
    heap,            \* the WikiPage objects: object id -> [id, title, content, modified]
    pages,           \* const pages: Map id -> the page object held under that key
    linkIndex,       \* const linkIndex: the Map's entries <<[id, links]>> in insertion
                     \* order; links is the Set's elements in insertion order
    backlinkIndex,   \* const backlinkIndex: target id -> set of source page ids
    nextFallbackId,  \* let nextFallbackId
    storage,         \* the pages map of memoryStorage(): id -> copy of the page
    tasks,           \* the calls that are suspended at an await
    clock,           \* the time source; every call is made at a new instant
    last,            \* the most recent call: what was called and how it went
    removed          \* history: the ids deletePage took out of the page table, with
                     \* how, and what has happened to each since

vars == <<heap, pages, linkIndex, backlinkIndex, nextFallbackId, storage, tasks,
          clock, last, removed>>

\* the in-memory state the operations work on, as one value
Mem == [heap |-> heap, pages |-> pages, li |-> linkIndex, bi |-> backlinkIndex,
        nfi |-> nextFallbackId]

\* ------------------------------------------------------------------------
\* Maps and Sets
\* ------------------------------------------------------------------------

Put(f, k, v) == [x \in DOMAIN f \cup {k} |-> IF x = k THEN v ELSE f[x]]

Drop(f, k) == [x \in DOMAIN f \ {k} |-> f[x]]

EmptyMap == [x \in {} |-> {}]

\* linkIndex.has(id), get(id), set(id, links), delete(id), keys
LinkKeys(li) == {li[i].id : i \in 1..Len(li)}

LinkHas(li, id) == id \in LinkKeys(li)

LinkGet(li, id) ==
    LET i == CHOOSE i \in 1..Len(li) : li[i].id = id IN li[i].links

LinkSet(li, id, links) ==
    IF LinkHas(li, id)
    THEN [i \in 1..Len(li) |-> IF li[i].id = id THEN [id |-> id, links |-> links] ELSE li[i]]
    ELSE Append(li, [id |-> id, links |-> links])

\* the entries of the pages that link to id deleted with it
LinkDeleteWithReferences(li, id) ==
    LET Keep(e) == e.id # id /\ \A i \in 1..Len(e.links) : Normalize(e.links[i]) # id
    IN SelectSeq(li, Keep)

LinkDelete(li, id) ==
    LET Keep(e) == e.id # id IN SelectSeq(li, Keep)

\* Set.prototype.delete and add on a Set kept in insertion order
SetDelete(set, x) ==
    LET Keep(y) == y # x IN SelectSeq(set, Keep)

SetAdd(set, x) == IF Contains(set, x) THEN set ELSE Append(set, x)

\* the smallest object id not in use
NewOid(h) == CHOOSE n \in 1..(Cardinality(DOMAIN h) + 1) : n \notin DOMAIN h

\* wiki.getLinks(id) and wiki.getBacklinks(id) (wiki.ts 364-372)
getLinks(m, id) == IF LinkHas(m.li, id) THEN LinkGet(m.li, id) ELSE <<>>

getBacklinks(m, id) == IF id \in DOMAIN m.bi THEN m.bi[id] ELSE {}

\* ------------------------------------------------------------------------
\* indexPageLinks and removePageFromIndexes (wiki.ts 123-155)
\* ------------------------------------------------------------------------

\* the slugify call made at this point has had its effect on nextFallbackId
Bump(m, text) == [m EXCEPT !.nfi = SlugifyNext(text, m.nfi)]

\* wiki.ts 131-134
AddSource(m, targetId, pageId) ==
    [m EXCEPT !.bi = Put(m.bi, targetId, getBacklinks(m, targetId) \cup {pageId})]

\* the loop of indexPageLinks over links[k..]
RECURSIVE IndexBacklinks(_, _, _, _)
IndexBacklinks(m, pageId, links, k) ==
    IF k > Len(links) THEN m
    ELSE IndexBacklinks(Bump(AddSource(m, Slugify(links[k], m.nfi), pageId), links[k]),
                        pageId, links, k + 1)

IndexLinks(m, pageId, links) ==
    IndexBacklinks([m EXCEPT !.li = LinkSet(m.li, pageId, links)], pageId, links, 1)

indexPageLinks(m, pageId, content) == IndexLinks(m, pageId, extractLinks(content))

\* wiki.ts 144-147
RemoveSource(m, targetId, pageId) ==
    IF targetId \notin DOMAIN m.bi THEN m
    ELSE IF m.bi[targetId] \ {pageId} = {} THEN [m EXCEPT !.bi = Drop(m.bi, targetId)]
    ELSE [m EXCEPT !.bi = Put(m.bi, targetId, m.bi[targetId] \ {pageId})]

\* the loop of removePageFromIndexes over links[k..]
RECURSIVE UnindexBacklinks(_, _, _, _)
UnindexBacklinks(m, pageId, links, k) ==
    IF k > Len(links) THEN m
    ELSE UnindexBacklinks(Bump(RemoveSource(m, Slugify(links[k], m.nfi), pageId), links[k]),
                          pageId, links, k + 1)

\* removePageFromIndexes without its last statement: the reverse entry of the
\* page itself is kept
DropEntriesKeepingBacklinks(m, pageId) == [m EXCEPT !.li = LinkDelete(m.li, pageId)]

\* wiki.ts 150-154
DropEntries(m, pageId) ==
    [m EXCEPT !.li = LinkDelete(m.li, pageId), !.bi = Drop(m.bi, pageId)]

removePageFromIndexes(m, pageId) ==
    DropEntries(UnindexBacklinks(m, pageId, getLinks(m, pageId), 1), pageId)

\* generateUniqueId (wiki.ts 76-86)
RECURSIVE UniqueFrom(_, _, _)
UniqueFrom(m, baseId, counter) ==
    IF (baseId \o <<"-">> \o Digits(counter)) \in DOMAIN m.pages
    THEN UniqueFrom(m, baseId, counter + 1)
    ELSE baseId \o <<"-">> \o Digits(counter)

\* the base id returned as it is
generateUniqueIdAsIs(m, baseId) == baseId

generateUniqueId(m, baseId) ==
    IF baseId \notin DOMAIN m.pages THEN baseId ELSE UniqueFrom(m, baseId, 2)

\* ------------------------------------------------------------------------
\* Bounds and the inputs the calls are made with
\* ------------------------------------------------------------------------

\* the number of calls made on one wiki instance
MaxClock == 3

\* the number of calls that may be suspended at an await at once
MaxInFlight == 2

TitleA == <<"A">>
TitleB == <<"B">>
TitleBang == <<"!">>

Titles == {TitleA, TitleB, TitleBang}

Link(text) == <<"[", "[">> \o text \o <<"]", "]">>

Contents == {<<>>, Link(<<"A">>), Link(<<"a">>), Link(<<"B">>), Link(<<"!">>)}

\* data.id of createPage; <<>> when the caller gives none
ExplicitIds == {<<>>, FallbackId(1)}

\* a field of UpdatePageData left undefined
NoValue == <<"undefined">>

\* the arrays import() is called with
ImportAB == << [id |-> <<"a">>, title |-> TitleA, content |-> <<>>, modified |-> 0],
               [id |-> <<"b">>, title |-> TitleB, content |-> Link(<<"A">>), modified |-> 0] >>

ImportA == << [id |-> <<"a">>, title |-> TitleA, content |-> Link(<<"B">>), modified |-> 0] >>

ImportArrays == {ImportAB, ImportA}

ImportModes == {"replace", "merge", "skip"}

\* the texts resolveLink() is called with
QueryTexts == {<<"!">>, <<"a">>}

\* ------------------------------------------------------------------------
\* Suspended calls
\* ------------------------------------------------------------------------

NoPage == [id |-> <<>>, title |-> <<>>, content |-> <<>>, modified |-> 0]

NoWrite == [kind |-> "none", id |-> <<>>, page |-> NoPage]

\* storage.save(page): memoryStorage copies the page when it is called
SaveOf(page) == [kind |-> "save", id |-> page.id, page |-> page]

\* storage.delete(id)
DeleteOf(id) == [kind |-> "delete", id |-> id, page |-> NoPage]

\* the effect of a storage call on the adapter's map (storage/memory.ts 7-18):
\* it is made when the method is called; the promise it returns settles later
ApplyWrite(st, w) ==
    CASE w.kind = "save" -> Put(st, w.id, w.page)
      [] w.kind = "delete" -> Drop(st, w.id)
      [] OTHER -> st

\* a call suspended at an await: what was called (op, mode), where it is (pc),
\* the page object it holds (oid), its locals and the storage call it awaits
BaseTask == [op |-> "none", pc |-> "none", t0 |-> 0, oid |-> 0, id |-> <<>>,
             newId |-> <<>>, newTitle |-> <<>>, prevTitle |-> <<>>, visited |-> {},
             data |-> <<>>, idx |-> 0, mode |-> "none", write |-> NoWrite,
             linkers |-> {}, emitEvents |-> FALSE, before |-> <<>>, sent |-> 0,
             rewritten |-> {}]

\* a Map iterator is live: an entry deleted behind it is no longer behind it
Unvisit(ts, ids) == {[t EXCEPT !.visited = @ \ ids] : t \in ts}

\* the page objects still referenced: by the page table or by a suspended call
Live(m, ts) == {m.pages[k] : k \in DOMAIN m.pages} \cup {t.oid : t \in ts}

Collect(m, ts) == [o \in DOMAIN m.heap \cap Live(m, ts) |-> m.heap[o]]

\* what was called, on which id, with which option, how it went (pending: it is
\* suspended; settled: it returned; rejected: it threw), the id it produced and
\* the events the step has delivered to the subscribed listener
Call(op, id, opt, status, res) ==
    [op |-> op, id |-> id, opt |-> opt, status |-> status, res |-> res,
     emitted |-> <<>>]

\* emitEvent({ type, page }): the listener is called with the event
Event(type, id) == [type |-> type, id |-> id]

\* the listener called twice
emitEventTwice(l, event) == [l EXCEPT !.emitted = Append(Append(@, event), event)]

emitEvent(l, event) == [l EXCEPT !.emitted = Append(@, event)]

\* the next state: the memory m, the suspended calls ts, the storage st
Commit(m, ts, st, l) ==
    /\ heap' = Collect(m, ts)
    /\ pages' = m.pages
    /\ linkIndex' = m.li
    /\ backlinkIndex' = m.bi
    /\ nextFallbackId' = m.nfi
    /\ tasks' = ts
    /\ storage' = st
    /\ last' = l

\* a call can be made: cap is the number of calls that may be in flight
CanCall(cap) == Cardinality(tasks) < cap /\ clock < MaxClock

\* the ids the links of content normalize to
Targets(content) ==
    {Normalize(extractLinks(content)[k]) : k \in 1..Len(extractLinks(content))}

\* the history of deleted ids after a step that leaves the page table newPages:
\* deletePage took out the ids del (with option how, while another page's
\* content linked to them or not), content with links to targets was indexed,
\* createPage made the ids created.  quiet: no link to the id has been indexed
\* since; back: the step just taken created a page with the id again
Track(d, newPages, del, how, linked, targets, created) ==
    [id \in {x \in DOMAIN d \cup del :
                \/ x \in del
                \/ ~d[x].back /\ (x \in created \/ x \notin DOMAIN newPages)} |->
        IF id \in del
        THEN [how |-> how, linked |-> linked, quiet |-> TRUE, back |-> FALSE]
        ELSE IF id \in created THEN [d[id] EXCEPT !.back = TRUE]
        ELSE [d[id] EXCEPT !.quiet = @ /\ id \notin targets]]

\* a step that deletes no page and indexes no content
Age(d, newPages) == Track(d, newPages, {}, "none", FALSE, {}, {})

Init ==
    /\ heap = EmptyMap
    /\ pages = EmptyMap
    /\ linkIndex = <<>>
    /\ backlinkIndex = EmptyMap
    /\ nextFallbackId = 1
    /\ storage = EmptyMap
    /\ tasks = {}
    /\ clock = 0
    /\ last = Call("none", <<>>, "none", "none", <<>>)
    /\ removed = EmptyMap

\* ------------------------------------------------------------------------
\* createPage (wiki.ts 170-205)
\* ------------------------------------------------------------------------

\* wiki.ts 177-185: the id of the new page
MintId(m, title, dataId) ==
    IF dataId # <<>> THEN dataId ELSE generateUniqueId(m, Slugify(title, m.nfi))

AfterMint(m, title, dataId) == IF dataId # <<>> THEN m ELSE Bump(m, title)

\* pages.set(page.id, page) with a new page object oid
InsertPage(m, oid, page) ==
    [m EXCEPT !.heap = Put(m.heap, oid, page), !.pages = Put(m.pages, page.id, oid)]

\* wiki.ts 198-199
CreateAs(m, oid, page) ==
    [m |-> indexPageLinks(InsertPage(m, oid, page), page.id, page.content),
     oid |-> oid, page |-> page]

\* the synchronous part, up to await storage.save(page)
createPageSync(m, now, title, content, dataId) ==
    CreateAs(AfterMint(m, title, dataId), NewOid(m.heap),
             [id |-> MintId(m, title, dataId), title |-> title, content |-> content,
              modified |-> now])

CreateTask(r, now) ==
    [BaseTask EXCEPT !.op = "create", !.pc = "save", !.t0 = now, !.oid = r.oid,
                     !.id = r.page.id, !.write = SaveOf(r.page)]

CreateCommit(r, now, dataId) ==
    Commit(r.m, tasks \cup {CreateTask(r, now)}, ApplyWrite(storage, SaveOf(r.page)),
           Call("create", dataId, "none", "pending", r.page.id))

CreatePage(cap, title, content, dataId) ==
    /\ CanCall(cap)
    /\ dataId \notin DOMAIN pages
    /\ CreateCommit(createPageSync(Mem, clock + 1, title, content, dataId), clock + 1, dataId)
    /\ removed' = Track(removed, pages', {}, "none", FALSE, Targets(content), {last'.res})
    /\ clock' = clock + 1

\* createPage with a data.id that is taken: throws before anything is changed
CreatePageRejected(cap, dataId) ==
    /\ CanCall(cap)
    /\ dataId # <<>> /\ dataId \in DOMAIN pages
    /\ Commit(Mem, tasks, storage, Call("create", dataId, "none", "rejected", <<>>))
    /\ removed' = Age(removed, pages')
    /\ clock' = clock + 1

\* ------------------------------------------------------------------------
\* updatePage (wiki.ts 238-268)
\* ------------------------------------------------------------------------

PageOf(m, id) == m.heap[m.pages[id]]

SetPage(m, id, page) == [m EXCEPT !.heap = Put(m.heap, m.pages[id], page)]

\* wiki.ts 250-254
Updated(page, now, title, content) ==
    [page EXCEPT !.title = IF title # NoValue THEN title ELSE @,
                 !.content = IF content # NoValue THEN content ELSE @,
                 !.modified = now]

\* wiki.ts 247, 257-260: old is the page before the call, new after it
ReindexIfChanged(m, id, old, new) ==
    IF new.content # old.content
    THEN indexPageLinks(removePageFromIndexes(SetPage(m, id, new), id), id, new.content)
    ELSE SetPage(m, id, new)

\* the synchronous part, up to await storage.save(page)
updatePageSync(m, now, id, title, content) ==
    ReindexIfChanged(m, id, PageOf(m, id), Updated(PageOf(m, id), now, title, content))

UpdateTask(m, now, id) ==
    [BaseTask EXCEPT !.op = "update", !.pc = "save", !.t0 = now, !.oid = m.pages[id],
                     !.id = id, !.write = SaveOf(PageOf(m, id))]

UpdateCommit(m, now, id, ts) ==
    Commit(m, ts \cup {UpdateTask(m, now, id)}, ApplyWrite(storage, SaveOf(PageOf(m, id))),
           Call("update", id, "none", "pending", id))

UpdatePage(cap, id, title, content) ==
    /\ CanCall(cap)
    /\ id \in DOMAIN pages
    /\ UpdateCommit(updatePageSync(Mem, clock + 1, id, title, content), clock + 1, id,
                    IF content # NoValue /\ content # PageOf(Mem, id).content
                    THEN Unvisit(tasks, {id}) ELSE tasks)
    /\ removed' = Track(removed, pages', {}, "none", FALSE,
                        IF content # NoValue /\ content # PageOf(Mem, id).content
                        THEN Targets(content) ELSE {}, {})
    /\ clock' = clock + 1

\* ------------------------------------------------------------------------
\* deletePage (wiki.ts 270-285)
\* ------------------------------------------------------------------------

\* the synchronous part, up to await storage.delete(id)
deletePageSync(m, id, updateLinks) ==
    IF updateLinks
    THEN removePageFromIndexes([m EXCEPT !.pages = Drop(m.pages, id)], id)
    ELSE [m EXCEPT !.pages = Drop(m.pages, id)]

\* whether the content of a page other than id holds a link to id
LinkedByOther(m, id) ==
    \E s \in DOMAIN m.pages \ {id} : id \in Targets(PageOf(m, s).content)

DeleteOption(updateLinks) == IF updateLinks THEN "updateLinks" ELSE "keepLinks"

DeleteTask(now, id, updateLinks) ==
    [BaseTask EXCEPT !.op = "delete", !.pc = "delete", !.t0 = now, !.id = id,
                     !.mode = DeleteOption(updateLinks), !.write = DeleteOf(id)]

DeletePage(cap, id, updateLinks) ==
    /\ CanCall(cap)
    /\ id \in DOMAIN pages
    /\ Commit(deletePageSync(Mem, id, updateLinks),
              (IF updateLinks THEN Unvisit(tasks, {id}) ELSE tasks)
                  \cup {DeleteTask(clock + 1, id, updateLinks)},
              ApplyWrite(storage, DeleteOf(id)),
              Call("delete", id, DeleteOption(updateLinks), "pending", id))
    /\ removed' = Track(removed, pages', {id}, DeleteOption(updateLinks),
                        LinkedByOther(Mem, id), {}, {})
    /\ clock' = clock + 1

\* the continuation of createPage, updatePage and deletePage once the storage
\* call has completed: nothing is touched
Settle(t) ==
    /\ t \in tasks
    /\ t.op \in {"create", "update", "delete"}
    /\ Commit(Mem, tasks \ {t}, storage,
              emitEvent(Call(t.op, t.id, t.mode, "settled", t.id), Event(t.op, t.id)))
    /\ removed' = Age(removed, pages')
    /\ UNCHANGED clock

\* ------------------------------------------------------------------------
\* renamePage (wiki.ts 287-362)
\* ------------------------------------------------------------------------

\* content.replace(new RegExp('\[\[' + escapeRegex(prev) + '(\|[^\]]+)?\]\]', 'g'),
\*                 '[[' + new + '$1]]')  (wiki.ts 312-315); p is where the title
\* ends in s if it starts s after '[[', q where the optional group ends
RECURSIVE ReplaceTitle(_, _, _)
ReplaceFrom(s, prev, new, p, q) ==
    IF StartsAt(s, 1, <<"[", "[">> \o prev) /\ StartsAt(s, p, <<"]", "]">>)
    THEN <<"[", "[">> \o new \o <<"]", "]">>
         \o ReplaceTitle(Slice(s, p + 2, Len(s)), prev, new)
    ELSE IF /\ StartsAt(s, 1, <<"[", "[">> \o prev) /\ StartsAt(s, p, <<"|">>)
            /\ q > p + 1 /\ StartsAt(s, q, <<"]", "]">>)
    THEN <<"[", "[">> \o new \o Slice(s, p, q - 1) \o <<"]", "]">>
         \o ReplaceTitle(Slice(s, q + 2, Len(s)), prev, new)
    ELSE <<Head(s)>> \o ReplaceTitle(Tail(s), prev, new)

ReplaceTitle(s, prev, new) ==
    IF s = <<>> THEN <<>>
    ELSE ReplaceFrom(s, prev, new, 3 + Len(prev),
                     4 + Len(prev) + RunLen(NotClose, s, 4 + Len(prev)))

\* the entries the loop of wiki.ts 309-318 has still to visit and rewrites
Siblings(m, t) ==
    {k \in 1..Len(m.li) : /\ m.li[k].id \notin t.visited
                          /\ m.li[k].id \in DOMAIN m.pages
                          /\ Contains(m.li[k].links, t.prevTitle)}

FirstSibling(m, t) == CHOOSE k \in Siblings(m, t) : \A j \in Siblings(m, t) : k <= j

\* wiki.ts 312-316: the page object oid now holds page, which is handed to
\* storage.save; the iterator stands after entry k.  rewritten: history, the ids
\* of the pages whose content this call has changed in its loop
SuspendAtSibling(m, t, k, oid, page) ==
    [m |-> [m EXCEPT !.heap = Put(m.heap, oid, page)],
     t |-> [t EXCEPT !.pc = "loop", !.write = SaveOf(page),
                     !.visited = {m.li[j].id : j \in 1..k},
                     !.rewritten = IF page.content # m.heap[oid].content
                                   THEN @ \cup {page.id} ELSE @]]

RewriteContent(page, t) ==
    [page EXCEPT !.content = ReplaceTitle(@, t.prevTitle, t.newTitle)]

\* one pass of that loop's body: the first such entry's page gets its content
\* rewritten and is handed to storage.save
RewriteSiblingAt(m, t, k) ==
    SuspendAtSibling(m, t, k, m.pages[m.li[k].id],
                     RewriteContent(m.heap[m.pages[m.li[k].id]], t))

rewriteSibling(m, t) == RewriteSiblingAt(m, t, FirstSibling(m, t))

\* wiki.ts 339-347, one Set: linkArray[k..] against the Set as it is now
RECURSIVE RetargetLinks(_, _, _, _, _, _)
RetargetLinks(links, linkArray, k, nfi, id, newTitle) ==
    IF k > Len(linkArray) THEN [links |-> links, nfi |-> nfi]
    ELSE RetargetLinks(IF Slugify(linkArray[k], nfi) = id
                       THEN SetAdd(SetDelete(links, linkArray[k]), newTitle)
                       ELSE links,
                       linkArray, k + 1, SlugifyNext(linkArray[k], nfi), id, newTitle)

RetargetEntry(m, i, r) == [m EXCEPT !.li[i].links = r.links, !.nfi = r.nfi]

\* wiki.ts 339-347, all the Sets of linkIndex from entry i on
RECURSIVE RetargetAll(_, _, _, _)
RetargetAll(m, i, id, newTitle) ==
    IF i > Len(m.li) THEN m
    ELSE RetargetAll(RetargetEntry(m, i, RetargetLinks(m.li[i].links, m.li[i].links, 1,
                                                       m.nfi, id, newTitle)),
                     i + 1, id, newTitle)

\* wiki.ts 349-354
RenameSources(bi, id, newId) ==
    [x \in DOMAIN bi |-> IF id \in bi[x] THEN (bi[x] \ {id}) \cup {newId} ELSE bi[x]]

\* wiki.ts 321-323
MoveObject(m, t) ==
    [m EXCEPT !.heap = Put(m.heap, t.oid, [m.heap[t.oid] EXCEPT !.id = t.newId]),
              !.pages = Put(Drop(m.pages, t.id), t.newId, t.oid)]

\* wiki.ts 326-330
MoveLinks(m, t) ==
    IF LinkHas(m.li, t.id)
    THEN [m EXCEPT !.li = LinkSet(LinkDelete(m.li, t.id), t.newId, LinkGet(m.li, t.id))]
    ELSE m

\* wiki.ts 332-336
MoveBacklinks(m, t) ==
    IF t.id \in DOMAIN m.bi
    THEN [m EXCEPT !.bi = Put(Drop(m.bi, t.id), t.newId, m.bi[t.id])]
    ELSE m

RenameSourcesIn(m, t) == [m EXCEPT !.bi = RenameSources(m.bi, t.id, t.newId)]

\* wiki.ts 320-354: the page moves to its new id
movePage(m, t) ==
    RenameSourcesIn(RetargetAll(MoveBacklinks(MoveLinks(MoveObject(m, t), t), t),
                                1, t.id, t.newTitle), t)

\* wiki.ts 358: the page is handed to storage.save
SuspendAtFinal(m, t) ==
    [m |-> m, t |-> [t EXCEPT !.pc = "final", !.write = SaveOf(m.heap[t.oid])]]

\* the loop from where it stands, up to the next await: either a sibling is
\* rewritten and saved, or the loop is over, the page moves and is saved
renameContinue(m, t) ==
    IF Siblings(m, t) # {} THEN rewriteSibling(m, t)
    ELSE SuspendAtFinal(movePage(m, t), t)

\* wiki.ts 297-299: the title is set before the new id is looked at
renameTitle(m, now, id, newTitle) ==
    SetPage(m, id, [PageOf(m, id) EXCEPT !.title = newTitle, !.modified = now])

\* wiki.ts 301-302: slugify(newTitle) is called only under updateId
renameEnter(m, now, id, newTitle, updateId) ==
    IF updateId THEN Bump(renameTitle(m, now, id, newTitle), newTitle)
    ELSE renameTitle(m, now, id, newTitle)

RenameOption(updateId) == IF updateId THEN "updateId" ELSE "keepId"

RenameKeepTask(m, now, id, updateId) ==
    [BaseTask EXCEPT !.op = "rename", !.pc = "final", !.t0 = now, !.oid = m.pages[id],
                     !.id = id, !.newId = id, !.mode = RenameOption(updateId),
                     !.write = SaveOf(PageOf(m, id))]

RenameKeepCommit(m, now, id, updateId) ==
    Commit(m, tasks \cup {RenameKeepTask(m, now, id, updateId)},
           ApplyWrite(storage, SaveOf(PageOf(m, id))),
           Call("rename", id, RenameOption(updateId), "pending", id))

\* renamePage without updateId, or to a title with the same id
RenamePage(cap, id, newTitle, updateId) ==
    /\ CanCall(cap)
    /\ id \in DOMAIN pages
    /\ ~updateId \/ Slugify(newTitle, nextFallbackId) = id
    /\ RenameKeepCommit(renameEnter(Mem, clock + 1, id, newTitle, updateId), clock + 1,
                        id, updateId)
    /\ removed' = Age(removed, pages')
    /\ clock' = clock + 1

\* the pages whose forward set holds a link text that resolves to id
Linkers(m, id) ==
    {m.li[k].id : k \in {j \in 1..Len(m.li) :
                            \E x \in 1..Len(m.li[j].links) :
                                Slugify(m.li[j].links[x], m.nfi) = id}}

RenameTask(m, now, id, newTitle) ==
    [BaseTask EXCEPT !.op = "rename", !.t0 = now, !.oid = m.pages[id], !.id = id,
                     !.newId = Slugify(newTitle, m.nfi), !.newTitle = newTitle,
                     !.mode = "updateId", !.prevTitle = PageOf(m, id).title,
                     !.linkers = Linkers(m, id)]

RenameIdCommit(r, ts, id) ==
    Commit(r.m, ts \cup {r.t}, ApplyWrite(storage, r.t.write),
           Call("rename", id, "updateId", "pending", r.t.newId))

\* renamePage with updateId to a title whose id is free
RenamePageId(cap, id, newTitle) ==
    /\ CanCall(cap)
    /\ id \in DOMAIN pages
    /\ Slugify(newTitle, nextFallbackId) # id
    /\ Slugify(newTitle, nextFallbackId) \notin DOMAIN pages
    /\ RenameIdCommit(renameContinue(renameEnter(Mem, clock + 1, id, newTitle, TRUE),
                                     RenameTask(Mem, clock + 1, id, newTitle)),
                      tasks, id)
    /\ removed' = Age(removed, pages')
    /\ clock' = clock + 1

\* renamePage with updateId to a title whose id belongs to another page: throws
\* at wiki.ts 305
RenamePageRejected(cap, id, newTitle) ==
    /\ CanCall(cap)
    /\ id \in DOMAIN pages
    /\ Slugify(newTitle, nextFallbackId) # id
    /\ Slugify(newTitle, nextFallbackId) \in DOMAIN pages
    /\ Commit(renameEnter(Mem, clock + 1, id, newTitle, TRUE), tasks, storage,
              Call("rename", id, "updateId", "rejected", <<>>))
    /\ removed' = Age(removed, pages')
    /\ clock' = clock + 1

\* the continuation of renamePage after await storage.save(sourcePage)
RenameResume(t) ==
    /\ t \in tasks
    /\ t.op = "rename" /\ t.pc = "loop"
    /\ RenameIdCommit(renameContinue(Mem, t), tasks \ {t}, t.id)
    /\ removed' = Age(removed, pages')
    /\ UNCHANGED clock

\* the continuation of renamePage after await storage.save(page)
RenameSettle(t) ==
    /\ t \in tasks
    /\ t.op = "rename" /\ t.pc = "final"
    /\ Commit(Mem, tasks \ {t}, storage,
              emitEvent(Call("rename", t.id, t.mode, "settled", t.newId),
                        Event("rename", heap[t.oid].id)))
    /\ removed' = Age(removed, pages')
    /\ UNCHANGED clock

\* ------------------------------------------------------------------------
\* import (wiki.ts 659-711)
\* ------------------------------------------------------------------------

\* the entries of the array the loop of wiki.ts 686-708 has still to import
\* the loop without its test of the mode
ToImportAlways(m, t) == t.idx..Len(t.data)

ToImport(m, t) ==
    {j \in t.idx..Len(t.data) : ~(t.mode = "skip" /\ t.data[j].id \in DOMAIN m.pages)}

FirstImport(m, t) == CHOOSE j \in ToImport(m, t) : \A k \in ToImport(m, t) : j <= k

\* wiki.ts 693-702: entry j becomes the page object oid, is indexed and saved
ImportAt(m, t, j, oid) ==
    [m |-> indexPageLinks(InsertPage(m, oid, t.data[j]), t.data[j].id, t.data[j].content),
     t |-> [t EXCEPT !.pc = "loop", !.idx = j + 1, !.oid = oid,
                     !.write = SaveOf(t.data[j])]]

\* the loop from where it stands, up to the next await
importContinue(m, t) == ImportAt(m, t, FirstImport(m, t), NewOid(m.heap))

\* wiki.ts 678-682
clearForImport(m, mode) ==
    IF mode = "replace"
    THEN [m EXCEPT !.pages = EmptyMap, !.li = <<>>, !.bi = EmptyMap]
    ELSE m

\* the ids the content indexed by the loop's next pass links to
ImportTargets(m, t) ==
    IF ToImport(m, t) = {} THEN {} ELSE Targets(t.data[FirstImport(m, t)].content)

\* the pages, the indexes and the store as a caller can see them
Snapshot ==
    [pages |-> [k \in DOMAIN pages |-> PageOf(Mem, k)], li |-> linkIndex,
     bi |-> backlinkIndex, storage |-> storage]

\* before: what the wiki held when the call was made
ImportTask(now, data, mode) ==
    [BaseTask EXCEPT !.op = "import", !.t0 = now, !.data = data, !.idx = 1, !.mode = mode,
                     !.before = Snapshot]

ImportCommit(r, ts, l) ==
    Commit(r.m, ts \cup {r.t}, ApplyWrite(storage, r.t.write), l)

\* the loop runs to its next await, or to its end; l holds what the step has
\* done before the loop
ImportStep(m, t, ts, l) ==
    IF ToImport(m, t) = {}
    THEN Commit(m, ts, storage, [l EXCEPT !.status = "settled"])
    ELSE ImportCommit(importContinue(m, t), ts, l)

\* wiki.ts 665-672: each entry has an id and a title
ValidImport(data) ==
    \A j \in 1..Len(data) : data[j].id # <<>> /\ data[j].title # <<>>

ImportCall(cap, t) ==
    /\ CanCall(cap)
    /\ ValidImport(t.data)
    /\ ImportStep(clearForImport(Mem, t.mode), t,
                  IF t.mode = "replace" THEN Unvisit(tasks, LinkKeys(linkIndex)) ELSE tasks,
                  Call("import", <<>>, t.mode, "pending", <<>>))
    /\ removed' = Track(removed, pages', {}, "none", FALSE,
                        ImportTargets(clearForImport(Mem, t.mode), t), {})
    /\ clock' = clock + 1

Import(cap, data, mode) == ImportCall(cap, ImportTask(clock + 1, data, mode))

\* import(data, { mode, emitEvents: true })
ImportEmitting(cap, data, mode) ==
    ImportCall(cap, [ImportTask(clock + 1, data, mode) EXCEPT !.emitEvents = TRUE])

\* import of an array with an entry that has no id or no title: throws before
\* anything is changed
ImportRejected(cap, data, mode) ==
    /\ CanCall(cap)
    /\ ~ValidImport(data)
    /\ Commit(Mem, tasks, storage, Call("import", <<>>, mode, "rejected", <<>>))
    /\ removed' = Age(removed, pages')
    /\ clock' = clock + 1

\* the entry an import task has just made a page of
Imported(t) == t.data[t.idx - 1]

\* wiki.ts 705-707: the event of the entry whose save has completed
ImportEvent(t, l) ==
    IF t.emitEvents THEN emitEvent(l, Event("create", Imported(t).id)) ELSE l

\* sent: the events the call has delivered
Sent(t) == IF t.emitEvents THEN [t EXCEPT !.sent = @ + 1] ELSE t

\* the continuation of import after await storage.save(page)
ImportResume(t) ==
    /\ t \in tasks
    /\ t.op = "import"
    /\ ImportStep(Mem, Sent(t), tasks \ {t},
                  ImportEvent(t, Call("import", <<>>, t.mode, "pending", <<>>)))
    /\ removed' = Track(removed, pages', {}, "none", FALSE, ImportTargets(Mem, t), {})
    /\ UNCHANGED clock

\* ------------------------------------------------------------------------
\* resolveLink (wiki.ts 394-396)
\* ------------------------------------------------------------------------

ResolveLink(cap, linkText) ==
    /\ CanCall(cap)
    /\ Commit(Bump(Mem, linkText), tasks, storage,
              Call("resolveLink", linkText, "none", "settled",
                   Slugify(linkText, nextFallbackId)))
    /\ removed' = Age(removed, pages')
    /\ clock' = clock + 1

\* ------------------------------------------------------------------------
\* The specifications
\* ------------------------------------------------------------------------

\* a call made by the caller while at most cap - 1 calls are suspended
Calls(cap) ==
    \/ \E title \in Titles, content \in Contents, dataId \in ExplicitIds :
          CreatePage(cap, title, content, dataId)
    \/ \E dataId \in ExplicitIds : CreatePageRejected(cap, dataId)
    \/ \E id \in DOMAIN pages, title \in Titles \cup {NoValue},
          content \in Contents \cup {NoValue} : UpdatePage(cap, id, title, content)
    \/ \E id \in DOMAIN pages, updateLinks \in BOOLEAN : DeletePage(cap, id, updateLinks)
    \/ \E id \in DOMAIN pages, newTitle \in Titles, updateId \in BOOLEAN :
          RenamePage(cap, id, newTitle, updateId)
    \/ \E id \in DOMAIN pages, newTitle \in Titles : RenamePageId(cap, id, newTitle)
    \/ \E id \in DOMAIN pages, newTitle \in Titles : RenamePageRejected(cap, id, newTitle)
    \/ \E data \in ImportArrays, mode \in ImportModes : Import(cap, data, mode)
    \/ \E linkText \in QueryTexts : ResolveLink(cap, linkText)

\* a suspended call resumes
Resumes ==
    \/ \E t \in tasks : Settle(t)
    \/ \E t \in tasks : RenameResume(t)
    \/ \E t \in tasks : RenameSettle(t)
    \/ \E t \in tasks : ImportResume(t)

\* every call is awaited before the next one is made
Next == Calls(1) \/ Resumes

Spec == Init /\ [][Next]_vars

\* calls are made while others are suspended
NextAsync == Calls(MaxInFlight) \/ Resumes

SpecAsync == Init /\ [][NextAsync]_vars

\* ------------------------------------------------------------------------
\* Queries the properties are stated with
\* ------------------------------------------------------------------------

\* getOrphans (wiki.ts 433-444): the ids of the pages it returns
getOrphans(m) ==
    {PageOf(m, k).id : k \in {x \in DOMAIN m.pages :
                                 getBacklinks(m, PageOf(m, x).id) = {}}}

\* every call made so far has returned or thrown
Settled == tasks = {}

\* the ids that are the normalization of a title
ProperIds == {Normalize(t) : t \in Titles} \ {<<>>}

\* the call that led to the current state
LastIs(op, opt, status) == last.op = op /\ last.opt = opt /\ last.status = status

\* ------------------------------------------------------------------------
\* Properties
\* ------------------------------------------------------------------------

\* C1: once every call has returned, for every existing page S and every link
\* text t in getLinks(S), S is a member of getBacklinks(resolveLink(t)): every
\* forward link has its reverse-index entry.  Stated for the link texts whose
\* normalization is not empty, for which resolveLink(t) is that normalization.
C1_ForwardHasReverse ==
    Settled =>
        \A S \in DOMAIN pages : \A k \in 1..Len(getLinks(Mem, S)) :
            Normalize(getLinks(Mem, S)[k]) # <<>>
                => S \in getBacklinks(Mem, Normalize(getLinks(Mem, S)[k]))

\* C2: once every call has returned, for every identifier id and every S in
\* getBacklinks(id), getLinks(S) holds a link text t with resolveLink(t) = id:
\* no reverse-index entry without a forward link that supports it.  Stated for
\* the ids that are the normalization of a title.
C2_ReverseHasForward ==
    Settled =>
        \A id \in ProperIds : \A S \in getBacklinks(Mem, id) :
            \E k \in 1..Len(getLinks(Mem, S)) :
                Slugify(getLinks(Mem, S)[k], nextFallbackId) = id

\* C3: once every call has returned, for every existing page P, getLinks(P.id)
\* is extractLinks(P.content): the same link texts in the same order, also
\* after a renamePage with updateId has rewritten content and forward sets.
C3_ForwardIsScan ==
    Settled =>
        \A id \in DOMAIN pages :
            getLinks(Mem, PageOf(Mem, id).id) = extractLinks(PageOf(Mem, id).content)

\* C4: after deletePage(id) with default options id is not a key of the forward
\* index, is in no reverse-index set and has no reverse entry of its own; and it
\* stays out of the forward keys and out of every reverse set until a page with
\* that id is created again.  The reverse sets looked at are those of the ids
\* that are the normalization of a title.
C4_DeletedIsGone ==
    /\ LastIs("delete", "updateLinks", "pending") =>
          last.id \notin DOMAIN backlinkIndex
    /\ \A id \in DOMAIN removed :
          (removed[id].how = "updateLinks" /\ ~removed[id].back) =>
              /\ ~LinkHas(linkIndex, id)
              /\ \A x \in ProperIds : id \notin getBacklinks(Mem, x)

\* C5: once every call has returned, every member of every reverse-index set is
\* the id of an existing page, also after deletePage with updateLinks: false
\* and after renamePage with updateId: true.  The reverse sets looked at are
\* those of the ids that are the normalization of a title.
C5_SourcesExist ==
    Settled => \A x \in ProperIds : getBacklinks(Mem, x) \subseteq DOMAIN pages

\* C6: a renamePage(id, newTitle, {updateId: true}) that is rejected because
\* the new id belongs to another page leaves the wiki as it was: every page's
\* title, modified and content, the page table and both indexes.
C6_RejectedRenameChangesNothing ==
    [][(last'.op = "rename" /\ last'.status = "rejected" /\ clock' # clock) =>
          /\ heap' = heap
          /\ pages' = pages
          /\ linkIndex' = linkIndex
          /\ backlinkIndex' = backlinkIndex]_vars

\* C7: when a renamePage(oldId, newTitle, {updateId: true}) that changes the id
\* returns, no existing page's content holds a link that normalizes to oldId,
\* and every page whose forward set held a link text resolving to oldId when
\* the call was made is in getBacklinks(newId).
C7_RenameRewritesLinkers ==
    [][\A t \in tasks :
          (t \notin tasks' /\ t.op = "rename" /\ t.pc = "final" /\ t.newId # t.id) =>
              /\ \A id \in DOMAIN pages' :
                    t.id \notin Targets(heap'[pages'[id]].content)
              /\ \A S \in t.linkers :
                    (IF S = t.id THEN t.newId ELSE S) \in
                        (IF t.newId \in DOMAIN backlinkIndex'
                         THEN backlinkIndex'[t.newId] ELSE {})]_vars

\* C8: the in-memory effect of a mutating call (page table and both indexes) is
\* applied in one step before its first await: when a call that was suspended
\* while another call was made resumes, it changes none of the three.
C8_MutationIsOneStep ==
    [][\A t \in tasks :
          (t \notin tasks' /\ clock' = clock /\ t.t0 < clock) =>
              /\ pages' = pages
              /\ linkIndex' = linkIndex
              /\ backlinkIndex' = backlinkIndex]_vars

\* C9: if an existing page S holds a link whose target does not exist, then as
\* soon as createPage makes a page whose id is the normalization of that link
\* text, getBacklinks(that id) contains S.
C9_BacklinkAppears ==
    [][(last'.op = "create" /\ last'.status = "pending" /\ clock' # clock) =>
          \A S \in DOMAIN pages :
              last'.res \in Targets(PageOf(Mem, S).content) =>
                  /\ last'.res \in DOMAIN backlinkIndex'
                  /\ S \in backlinkIndex'[last'.res]]_vars

QuietlyBack(T) ==
    /\ removed[T].back
    /\ removed[T].linked
    /\ removed[T].how = "updateLinks"
    /\ removed[T].quiet
    /\ T \in DOMAIN pages
    /\ T \notin Targets(PageOf(Mem, T).content)

MaxDepth == 2

MaxWalk == 32

Depths == 0..MaxDepth

QueryIds == {<<"a">>, <<"b">>, FallbackId(1)}

\* a set in some order; the results below that are built from a JavaScript Set
\* or Map the model keeps unordered are compared as sets
RECURSIVE Order(_)
OrderFrom(S, x) == <<x>> \o Order(S \ {x})

Order(S) == IF S = {} THEN <<>> ELSE OrderFrom(S, CHOOSE x \in S : TRUE)

Elems(s) == {s[i] : i \in 1..Len(s)}

NoRepeat(s) == \A i, j \in 1..Len(s) : s[i] = s[j] => i = j

Answer(res, n) == [res |-> res, nfi |-> n]

\* the loop of getDeadLinksForPage and the inner loop of getDeadLinks
RECURSIVE DeadOf(_, _, _, _, _)
DeadOf(m, links, i, n, acc) ==
    IF i > Len(links) THEN Answer(acc, n)
    ELSE DeadOf(m, links, i + 1, SlugifyNext(links[i], n),
                IF Slugify(links[i], n) \in DOMAIN m.pages THEN acc
                ELSE Append(acc, links[i]))

getDeadLinksForPage(m, id) ==
    IF LinkHas(m.li, id) THEN DeadOf(m, LinkGet(m.li, id), 1, m.nfi, <<>>)
    ELSE Answer(<<>>, m.nfi)

DeadLink(sourceId, texts) ==
    [i \in 1..Len(texts) |-> [source |-> sourceId, target |-> texts[i]]]

RECURSIVE DeadFrom(_, _, _, _)
DeadEntry(m, k, d, acc) ==
    DeadFrom(m, k + 1, d.nfi, acc \o DeadLink(m.li[k].id, d.res))

DeadFrom(m, k, n, acc) ==
    IF k > Len(m.li) THEN Answer(acc, n)
    ELSE DeadEntry(m, k, DeadOf(m, m.li[k].links, 1, n, <<>>), acc)

getDeadLinks(m) == DeadFrom(m, 1, m.nfi, <<>>)

RECURSIVE LinkedOf(_, _, _, _, _)
LinkedOf(m, links, i, n, acc) ==
    IF i > Len(links) THEN Answer(acc, n)
    ELSE LinkedOf(m, links, i + 1, SlugifyNext(links[i], n),
                  IF Slugify(links[i], n) \in DOMAIN m.pages
                  THEN Append(acc, PageOf(m, Slugify(links[i], n)))
                  ELSE acc)

getLinkedPages(m, id) == LinkedOf(m, getLinks(m, id), 1, m.nfi, <<>>)

\* getGraph(): the adjacency list of one page, then of every page
RECURSIVE Adjacent(_, _, _, _)
Adjacent(links, i, n, acc) ==
    IF i > Len(links) THEN Answer(acc, n)
    ELSE Adjacent(links, i + 1, SlugifyNext(links[i], n),
                  Append(acc, Slugify(links[i], n)))

RECURSIVE GraphFrom(_, _, _, _, _)
GraphEntry(m, keys, k, a, graph) ==
    GraphFrom(m, keys, k + 1, a.nfi, Put(graph, PageOf(m, keys[k]).id, a.res))

GraphFrom(m, keys, k, n, graph) ==
    IF k > Len(keys) THEN Answer(graph, n)
    ELSE GraphEntry(m, keys, k,
                    Adjacent(getLinks(m, PageOf(m, keys[k]).id), 1, n, <<>>), graph)

getGraph(m) == GraphFrom(m, Order(DOMAIN m.pages), 1, m.nfi, EmptyMap)

\* getConnectedPages(id, depth): the queue, the visited set (connectedIds holds
\* the same ids in the same order), the ids whose links were followed, and the
\* iterations of the while loop still allowed
Entry(id, d) == [id |-> id, currentDepth |-> d]

Start(m, id) ==
    [queue |-> <<Entry(id, 0)>>, visited |-> <<>>, expanded |-> <<>>,
     nfi |-> m.nfi, fuel |-> MaxWalk]

PushTarget(m, targetId, d, w) ==
    IF ~Contains(w.visited, targetId) /\ targetId \in DOMAIN m.pages
    THEN [w EXCEPT !.queue = Append(@, Entry(targetId, d))]
    ELSE w

RECURSIVE PushLinks(_, _, _, _, _)
PushLinks(m, links, i, d, w) ==
    IF i > Len(links) THEN w
    ELSE PushLinks(m, links, i + 1, d,
                   [PushTarget(m, Slugify(links[i], w.nfi), d, w)
                       EXCEPT !.nfi = SlugifyNext(links[i], w.nfi)])

RECURSIVE PushBacklinks(_, _, _, _)
PushBacklinks(backlinks, i, d, w) ==
    IF i > Len(backlinks) THEN w
    ELSE PushBacklinks(backlinks, i + 1, d,
                       IF ~Contains(w.visited, backlinks[i])
                       THEN [w EXCEPT !.queue = Append(@, Entry(backlinks[i], d))]
                       ELSE w)

Expand(m, current, w) ==
    PushBacklinks(Order(getBacklinks(m, current.id)), 1, current.currentDepth + 1,
                  PushLinks(m, getLinks(m, current.id), 1, current.currentDepth + 1,
                            [w EXCEPT !.expanded = Append(@, current.id)]))

Visit(m, depth, current, w) ==
    IF current.currentDepth < depth THEN Expand(m, current, w) ELSE w

\* the loop without its test of the visited set
SeenNever(visited, id) == FALSE

Seen(visited, id) == Contains(visited, id)

RECURSIVE Walk(_, _, _)
Shift(w) == [w EXCEPT !.queue = Tail(@), !.fuel = @ - 1]

Walk(m, depth, w) ==
    IF w.queue = <<>> \/ w.fuel = 0 THEN w
    ELSE IF Seen(w.visited, Head(w.queue).id) THEN Walk(m, depth, Shift(w))
    ELSE Walk(m, depth,
              Visit(m, depth, Head(w.queue),
                    [Shift(w) EXCEPT !.visited = Append(@, Head(w.queue).id)]))

Present(m, ids) ==
    LET Has(pid) == pid \in DOMAIN m.pages
        Kept == SelectSeq(ids, Has)
    IN  [i \in 1..Len(Kept) |-> PageOf(m, Kept[i])]

Connected(m, depth, w) ==
    [res |-> [depth |-> depth, pages |-> Present(m, w.visited),
              expanded |-> w.expanded, done |-> w.queue = <<>>],
     nfi |-> w.nfi]

NotConnected(m, depth) ==
    [res |-> [depth |-> depth, pages |-> <<>>, expanded |-> <<>>, done |-> TRUE],
     nfi |-> m.nfi]

getConnectedPages(m, id, depth) ==
    IF id \notin DOMAIN m.pages THEN NotConnected(m, depth)
    ELSE Connected(m, depth, Walk(m, depth, Start(m, id)))

\* a query is called and returns
Query(cap, op, id, r) ==
    /\ CanCall(cap)
    /\ Commit([Mem EXCEPT !.nfi = r.nfi], tasks, storage,
              Call(op, id, "none", "settled", r.res))
    /\ removed' = Age(removed, pages')
    /\ clock' = clock + 1

GetLinks(cap, id) == Query(cap, "getLinks", id, Answer(getLinks(Mem, id), nextFallbackId))

GetBacklinks(cap, id) ==
    Query(cap, "getBacklinks", id, Answer(getBacklinks(Mem, id), nextFallbackId))

GetLinkedPages(cap, id) == Query(cap, "getLinkedPages", id, getLinkedPages(Mem, id))

GetDeadLinks(cap) == Query(cap, "getDeadLinks", <<>>, getDeadLinks(Mem))

GetDeadLinksForPage(cap, id) ==
    Query(cap, "getDeadLinksForPage", id, getDeadLinksForPage(Mem, id))

GetOrphans(cap) == Query(cap, "getOrphans", <<>>, Answer(getOrphans(Mem), nextFallbackId))

GetGraph(cap) == Query(cap, "getGraph", <<>>, getGraph(Mem))

GetConnectedPages(cap, id, depth) ==
    Query(cap, "getConnectedPages", id, getConnectedPages(Mem, id, depth))

Queries(cap) ==
    \/ \E id \in QueryIds : GetLinks(cap, id)
    \/ \E id \in QueryIds : GetBacklinks(cap, id)
    \/ \E id \in QueryIds : GetLinkedPages(cap, id)
    \/ GetDeadLinks(cap)
    \/ \E id \in QueryIds : GetDeadLinksForPage(cap, id)
    \/ GetOrphans(cap)
    \/ GetGraph(cap)
    \/ \E id \in QueryIds, depth \in Depths : GetConnectedPages(cap, id, depth)

\* mutations and queries, every call awaited before the next one is made
NextQuery == Calls(1) \/ Queries(1) \/ Resumes

SpecQuery == Init /\ [][NextQuery]_vars

QueryOps ==
    {"getLinks", "getBacklinks", "getLinkedPages", "resolveLink", "getDeadLinks",
     "getDeadLinksForPage", "getOrphans", "getGraph", "getConnectedPages"}

\* the forward set of page S holds a link text that normalizes to P
ForwardReaches(m, S, P) ==
    \E i \in 1..Len(getLinks(m, S)) : Normalize(getLinks(m, S)[i]) = P

\* the existing pages no existing page's forward set reaches
Unlinked(m) ==
    {P \in DOMAIN m.pages : ~ \E S \in DOMAIN m.pages : ForwardReaches(m, S, P)}

\* C11: getOrphans() returns exactly the existing pages P for which no existing
\* page's forward set holds a link text that normalizes to P's id.  Stated for
\* the pages whose id is the normal form of a title.
C11_OrphansAreUnlinked ==
    LastIs("getOrphans", "none", "settled") =>
        last.res \cap ProperIds = Unlinked(Mem) \cap ProperIds

\* the links of existing page S whose normal form is not the id of an existing page
DeadTexts(m, S) ==
    {getLinks(m, S)[i] : i \in {j \in 1..Len(getLinks(m, S)) :
                                   Normalize(getLinks(m, S)[j]) \notin DOMAIN m.pages}}

DeadPairs(m) ==
    UNION {{[source |-> S, target |-> t] : t \in DeadTexts(m, S)} : S \in DOMAIN m.pages}

\* C12: getDeadLinks() returns exactly one entry (S, t) for each existing page S
\* and each link text t of getLinks(S) whose normal form is not the id of an
\* existing page, and nothing else.
C12_DeadLinksAreExact ==
    LastIs("getDeadLinks", "none", "settled") =>
        NoRepeat(last.res) /\ Elems(last.res) = DeadPairs(Mem)

\* page S has links, and each of them normalizes to the empty string
OnlyEmptyLinks(m, S) ==
    /\ getLinks(m, S) # <<>>
    /\ \A i \in 1..Len(getLinks(m, S)) : Normalize(getLinks(m, S)[i]) = <<>>

\* C13: a link whose text normalizes to the empty string is always dead: for an
\* existing page S with only such links, resolveLink of the text is not the id
\* of an existing page, getDeadLinks() reports the link, and S is in the
\* backlinks of no existing page.
C13_EmptyLinkIsDead ==
    \A S \in DOMAIN pages :
        (Settled /\ OnlyEmptyLinks(Mem, S)) =>
            /\ \A i \in 1..Len(getLinks(Mem, S)) :
                  /\ Slugify(getLinks(Mem, S)[i], nextFallbackId) \notin DOMAIN pages
                  /\ [source |-> S, target |-> getLinks(Mem, S)[i]]
                         \in Elems(getDeadLinks(Mem).res)
            /\ \A P \in DOMAIN pages : S \notin getBacklinks(Mem, P)

\* C14: two calls resolveLink(x) on the same wiki return the same identifier.
\* Stated for two calls made one after the other.
C14_ResolveLinkIsStable ==
    [][(last.op = "resolveLink" /\ last'.op = "resolveLink" /\ last'.id = last.id)
          => last'.res = last.res]_vars

\* C15: every query is read-only: the step of a query leaves the page table,
\* the pages, both indexes, the fallback id counter and the store as they were.
C15_QueriesChangeNothing ==
    [][(clock' # clock /\ last'.op \in QueryOps) =>
          UNCHANGED <<heap, pages, linkIndex, backlinkIndex, nextFallbackId, storage>>]_vars

\* the id of the last call is not the id of an existing page, and belonged to a
\* page that has been deleted
AskedOfDeleted == last.id \in DOMAIN removed /\ last.id \notin DOMAIN pages

\* C16: getLinks(id), getBacklinks(id) and getConnectedPages(id) return an empty
\* result whenever id is not the id of an existing page.  Stated for the ids of
\* pages that have been deleted.
C16_EmptyForDeleted ==
    /\ (LastIs("getLinks", "none", "settled") /\ AskedOfDeleted) => last.res = <<>>
    /\ (LastIs("getBacklinks", "none", "settled") /\ AskedOfDeleted) => last.res = {}
    /\ (LastIs("getConnectedPages", "none", "settled") /\ AskedOfDeleted) =>
           last.res.pages = <<>>

\* the existing pages of X and the existing pages joined to one of them: P and
\* Q are joined when the forward set of one reaches the other
Neighbours(m, X) ==
    X \cup {Q \in DOMAIN m.pages :
               \E P \in X : ForwardReaches(m, P, Q) \/ ForwardReaches(m, Q, P)}

\* the existing pages at distance at most d of a page of X
RECURSIVE Ball(_, _, _)
Ball(m, X, d) == IF d = 0 THEN X ELSE Ball(m, Neighbours(m, X), d - 1)

PageIds(ps) == {ps[i].id : i \in 1..Len(ps)}

\* C17: for an existing page id, getConnectedPages(id, depth) returns exactly
\* the existing pages at distance at most depth from id in the undirected graph
\* of the forward sets, each once.  Stated for the pages whose id is the
\* normal form of a title.
C17_ConnectedIsBall ==
    (LastIs("getConnectedPages", "none", "settled") /\ last.id \in DOMAIN pages
        /\ last.id \in ProperIds) =>
        /\ NoRepeat(last.res.pages)
        /\ PageIds(last.res.pages) \cap ProperIds =
               Ball(Mem, {last.id}, last.res.depth) \cap ProperIds

\* C18: getConnectedPages(id, depth) terminates in every reachable state, for
\* every depth, and follows the links of each page at most once.
C18_WalkEndsExpandingOnce ==
    LastIs("getConnectedPages", "none", "settled") =>
        last.res.done /\ NoRepeat(last.res.expanded)

\* the case of C18: two pages that link to each other, walked to depth 2
C18_Witness ==
    /\ LastIs("getConnectedPages", "none", "settled")
    /\ last.res.depth = 2
    /\ Len(last.res.expanded) = 2
    /\ \E P, Q \in DOMAIN pages :
          P # Q /\ ForwardReaches(Mem, P, Q) /\ ForwardReaches(Mem, Q, P)

\* wiki.export(): a copy of every page
export(m) == [i \in 1..Cardinality(DOMAIN m.pages) |-> PageOf(m, Order(DOMAIN m.pages)[i])]

\* the state of a wiki that createWiki() has just made
FreshWiki ==
    [heap |-> EmptyMap, pages |-> EmptyMap, li |-> <<>>, bi |-> EmptyMap, nfi |-> 1]

\* import run to its end with no other call in between
RECURSIVE importAll(_, _)
importNext(r) == importAll(r.m, r.t)

importAll(m, t) == IF ToImport(m, t) = {} THEN m ELSE importNext(importContinue(m, t))

\* a fresh wiki after import(wiki.export(), {mode: 'replace'})
Reimported(m) ==
    importAll(clearForImport(FreshWiki, "replace"), ImportTask(0, export(m), "replace"))

PagesOf(m) == {PageOf(m, k) : k \in DOMAIN m.pages}

\* the dead links whose text has a normal form
ProperDead(deadLinks) == {e \in Elems(deadLinks) : Normalize(e.target) # <<>>}

SameAnswers(m, f) ==
    /\ PagesOf(f) = PagesOf(m)
    /\ \A id \in ProperIds :
          /\ getLinks(f, id) = getLinks(m, id)
          /\ getBacklinks(f, id) = getBacklinks(m, id)
    /\ ProperDead(getDeadLinks(f).res) = ProperDead(getDeadLinks(m).res)
    /\ getOrphans(f) \cap ProperIds = getOrphans(m) \cap ProperIds

\* C19: importing wiki.export() into a fresh wiki in mode replace yields the
\* same pages and the same getLinks, getBacklinks, getDeadLinks and getOrphans
\* results as the original.  The results are compared for the ids that are the
\* normal form of a title and the link texts that have a normal form, between
\* calls.
C19_RoundTrip == Settled => SameAnswers(Mem, Reimported(Mem))

\* this step is a merge import writing entry t over the existing page P
MergeOverwrites(t, P) ==
    /\ t \notin tasks
    /\ t.op = "import" /\ t.mode = "merge" /\ t.pc = "loop"
    /\ Imported(t).id = P

\* C20: when import in mode merge overwrites the existing page P, getLinks(P)
\* equals the links of the imported content, and P is in getBacklinks(x) for no
\* target x that the previous content linked to and the imported content does
\* not.
C20_MergeReindexes ==
    [][\A t \in tasks' : \A P \in DOMAIN pages :
          MergeOverwrites(t, P) =>
              /\ LinkHas(linkIndex', P)
              /\ LinkGet(linkIndex', P) = extractLinks(Imported(t).content)
              /\ \A x \in Targets(PageOf(Mem, P).content) \ Targets(Imported(t).content) :
                    x \in DOMAIN backlinkIndex' => P \notin backlinkIndex'[x]]_vars

\* ---------------------------------------------------------------------------
\* Calls that fail: a store whose promise rejects, an import array that is not
\* valid, and import with events.
\* ---------------------------------------------------------------------------

\* the second entry has no id
ImportNoId ==
    << [id |-> <<"b">>, title |-> TitleB, content |-> Link(<<"A">>), modified |-> 0],
       [id |-> <<>>, title |-> TitleA, content |-> <<>>, modified |-> 0] >>

\* the entry has no title
ImportNoTitle == << [id |-> <<"a">>, title |-> <<>>, content |-> <<>>, modified |-> 0] >>

InvalidArrays == {ImportNoId, ImportNoTitle}

\* the promise of the storage call a suspended call awaits rejects: no await of
\* wiki.ts is inside a try, so the call throws where it stands.  The store is
\* left as the storage call left it.
StorageRejects(t) ==
    /\ t \in tasks
    /\ Commit(Mem, tasks \ {t}, storage, Call(t.op, t.id, t.mode, "rejected", <<>>))
    /\ removed' = Age(removed, pages')
    /\ UNCHANGED clock

Failures(cap) ==
    \/ \E data \in ImportArrays, mode \in ImportModes : ImportEmitting(cap, data, mode)
    \/ \E data \in InvalidArrays, mode \in ImportModes : ImportRejected(cap, data, mode)
    \/ \E t \in tasks : StorageRejects(t)

\* mutations, every call awaited before the next one is made, over a store that
\* may reject
NextStore == Calls(1) \/ Failures(1) \/ Resumes

SpecStore == Init /\ [][NextStore]_vars

\* C21: whenever import rejects, in any mode, the page table, both indexes and
\* the store are as they were before the call.
C21_RejectedImportChangesNothing ==
    [][/\ (last'.op = "import" /\ last'.status = "rejected" /\ clock' # clock) =>
              Snapshot' = Snapshot
       /\ \A t \in tasks :
              (t.op = "import" /\ t \notin tasks' /\ last'.status = "rejected") =>
                  Snapshot' = t.before]_vars

\* C22: import with mode skip never overwrites: every page that existed before
\* a step of the import has the same title, content and outgoing links after it.
C22_SkipKeepsPages ==
    [][(last'.op = "import" /\ last'.opt = "skip") =>
          \A P \in DOMAIN pages :
              /\ P \in DOMAIN pages'
              /\ heap'[pages'[P]].title = PageOf(Mem, P).title
              /\ heap'[pages'[P]].content = PageOf(Mem, P).content
              /\ LinkHas(linkIndex', P) = LinkHas(linkIndex, P)
              /\ LinkHas(linkIndex, P) => LinkGet(linkIndex', P) = LinkGet(linkIndex, P)]_vars

\* the case of C22: an import in mode skip has returned, and page a, whose id
\* is in every imported array, holds a content that none of them gives it
C22_Witness ==
    /\ LastIs("import", "skip", "settled")
    /\ <<"a">> \in DOMAIN pages
    /\ PageOf(Mem, <<"a">>).content = Link(<<"a">>)
    /\ getLinks(Mem, <<"a">>) = << <<"a">> >>

\* C23: if storage.save() rejects during createPage, the page is not in the page
\* table and contributes no forward or reverse index entry.
C23_FailedCreateLeavesNothing ==
    [][\A t \in tasks :
          (t.op = "create" /\ t \notin tasks' /\ last'.status = "rejected") =>
              /\ t.id \notin DOMAIN pages'
              /\ ~LinkHas(linkIndex', t.id)
              /\ \A x \in DOMAIN backlinkIndex' : t.id \notin backlinkIndex'[x]]_vars

\* call t returns in this step
Returns(t) == t \in tasks /\ t \notin tasks' /\ last'.status = "settled"

\* after the step, the page table, the forward index and the store hold what
\* call t has done to the page whose id is now id
Reflected(t, id) ==
    IF t.op = "delete"
    THEN /\ id \notin DOMAIN pages'
         /\ id \notin DOMAIN storage'
         /\ t.mode = "updateLinks" => ~LinkHas(linkIndex', id)
    ELSE /\ id \in DOMAIN pages'
         /\ pages'[id] = t.oid
         /\ id \in DOMAIN storage'
         /\ storage'[id] = heap'[t.oid]
         /\ t.op = "create" =>
               /\ LinkHas(linkIndex', id)
               /\ LinkGet(linkIndex', id) = extractLinks(heap'[t.oid].content)

C25_NoEventOfFailedCall ==
    [][/\ last'.status = "rejected" => last'.emitted = <<>>
       /\ \A t \in tasks :
              (t \notin tasks' /\ last'.status = "rejected") => t.sent = 0]_vars

\* createPage calls only, each made before the ones before it have returned or
\* after
NextCreate ==
    \/ \E title \in Titles, content \in Contents, dataId \in ExplicitIds :
          CreatePage(MaxClock, title, content, dataId)
    \/ \E dataId \in ExplicitIds : CreatePageRejected(MaxClock, dataId)
    \/ \E t \in tasks : Settle(t)

SpecCreate == Init /\ [][NextCreate]_vars

\* C26: createPage calls made before the previous ones have settled, also with
\* the same title, receive pairwise distinct ids, and the page table holds one
\* page per successful call: each successful call adds one page under an id no
\* page had, and no page is replaced or lost when the calls settle.
C26_ConcurrentCreatesAreDistinct ==
    [][/\ (last'.op = "create" /\ last'.status = "pending" /\ clock' # clock) =>
              /\ last'.res \notin DOMAIN pages
              /\ DOMAIN pages' = DOMAIN pages \cup {last'.res}
              /\ heap'[pages'[last'.res]].id = last'.res
       /\ \A P \in DOMAIN pages : P \in DOMAIN pages' /\ pages'[P] = pages[P]
       /\ \A t1, t2 \in tasks' : t1.id = t2.id => t1 = t2]_vars

\* the case of C26: three calls with the same title are in flight
C26_Witness ==
    /\ Cardinality(tasks) = 3
    /\ \A t \in tasks : t.op = "create" /\ heap[t.oid].title = TitleA
    /\ Cardinality(DOMAIN pages) = 3

\* deletePage(id) and updatePage(id, ...) are both suspended at their storage
\* call: neither changes anything when it resumes
DeleteAndUpdateOf(id) ==
    \E t1, t2 \in tasks :
        /\ t1.op = "delete" /\ t1.mode = "updateLinks" /\ t1.id = id
        /\ t2.op = "update" /\ t2.id = id

\* C27: when deletePage(id) and updatePage(id, ...) are issued concurrently,
\* delete wins: the page does not exist, has no forward index entry, is in no
\* backlink set and is absent from the store.
C27_DeleteWins ==
    \A id \in QueryIds :
        DeleteAndUpdateOf(id) =>
            /\ id \notin DOMAIN pages
            /\ ~LinkHas(linkIndex, id)
            /\ \A x \in DOMAIN backlinkIndex : id \notin backlinkIndex[x]
            /\ id \notin DOMAIN storage

\* page k is as it was: same content, same forward set
Untouched(k) ==
    /\ k \in DOMAIN pages'
    /\ PageOf(Mem', k).content = PageOf(Mem, k).content
    /\ getLinks(Mem', k) = getLinks(Mem, k)

\* the links of k that resolved to id are reported dead by getDeadLinks()
ReportedDead(k, id) ==
    \A i \in 1..Len(getLinks(Mem, k)) :
        Normalize(getLinks(Mem, k)[i]) = id =>
            [source |-> k, target |-> getLinks(Mem, k)[i]] \in Elems(getDeadLinks(Mem').res)

DeleteStep(id) ==
    /\ last'.op = "delete" /\ last'.status = "pending" /\ last'.id = id
    /\ id \in DOMAIN pages

\* C28: deletePage(id) leaves every other page its content and its forward
\* set, and each of their links that resolved to id is a dead link afterwards.
C28_DeleteKeepsReferences ==
    [][\A id \in DOMAIN pages :
           DeleteStep(id) => \A k \in DOMAIN pages \ {id} : Untouched(k) /\ ReportedDead(k, id)]_vars

\* a page that another page links to has been deleted, and the link is
\* reported dead
C28_Witness ==
    /\ LastIs("delete", "updateLinks", "pending")
    /\ \E k \in DOMAIN pages : \E i \in 1..Len(getLinks(Mem, k)) :
           /\ k # last.id
           /\ Normalize(getLinks(Mem, k)[i]) = last.id
           /\ [source |-> k, target |-> getLinks(Mem, k)[i]] \in Elems(getDeadLinks(Mem).res)

\* the normalized forms of the forward set of page k, in order
NormalizedLinks(m, k) == [i \in 1..Len(getLinks(m, k)) |-> Normalize(getLinks(m, k)[i])]

\* C29: the keys of getGraph() are exactly the ids of the existing pages, and
\* the value for each key is the list of normalized forms of that page's
\* forward set entries.
C29_GraphIsForwardIndex ==
    LastIs("getGraph", "none", "settled") =>
        /\ DOMAIN last.res = DOMAIN pages
        /\ \A k \in DOMAIN pages : last.res[k] = NormalizedLinks(Mem, k)

\* ------------------------------------------------------------------------
\* resolveLink applied to its own result
\* ------------------------------------------------------------------------

\* the longest text resolveLink is given
MaxText == 2

SlugChars == {"A", "a", "!", " ", "-", "E_acute"}

SlugTexts == UNION {[1..n -> SlugChars] : n \in 0..MaxText}

\* wiki.resolveLink(wiki.resolveLink(linkText)): the inner call returns first
ResolveLinkTwice(cap, linkText) ==
    /\ CanCall(cap)
    /\ Commit(Bump(Bump(Mem, linkText), Slugify(linkText, nextFallbackId)), tasks, storage,
              Call("resolveLinkTwice", linkText, "none", "settled",
                   Slugify(Slugify(linkText, nextFallbackId),
                           SlugifyNext(linkText, nextFallbackId))))
    /\ removed' = Age(removed, pages')
    /\ clock' = clock + 1

NextSlug ==
    \/ \E linkText \in SlugTexts : ResolveLink(1, linkText)
    \/ \E linkText \in SlugTexts : ResolveLinkTwice(1, linkText)

SpecSlug == Init /\ [][NextSlug]_vars

\* C30: normalization is idempotent: resolveLink(resolveLink(s)) and
\* resolveLink(s), evaluated one after the other in either order, are equal.
C30_ResolveLinkIsIdempotent ==
    [][(/\ {last.op, last'.op} = {"resolveLink", "resolveLinkTwice"}
        /\ last'.id = last.id) => last'.res = last.res]_vars

\* ------------------------------------------------------------------------
\* The link scanner on contents with code regions
\* ------------------------------------------------------------------------

\* the number of pieces a scanned content is made of
MaxTokens == 5

ScanTokens ==
    {Link(<<"a">>), <<BT>>, <<BT, BT, BT>>, <<"~", "~", "~">>, <<" ", " ", " ", " ">>,
     <<NL>>, <<"x">>}

RECURSIVE Flatten(_)
Flatten(ts) == IF ts = <<>> THEN <<>> ELSE Head(ts) \o Flatten(Tail(ts))

\* the pieces of a content with brackets
LinkTokens ==
    {<<"[", "[">>, <<"]", "]">>, <<"[">>, <<" ">>, <<"a">>, <<NL>>, Link(<<"a">>),
     Link(<<"b">>)}

TokenLists(tokens) == UNION {[1..n -> tokens] : n \in 0..MaxTokens}

ScanContents == {Flatten(ts) : ts \in TokenLists(ScanTokens) \cup TokenLists(LinkTokens)}

\* createPage({title: 'A', content}) on a new wiki
ScanPage ==
    /\ DOMAIN pages = {}
    /\ \E content \in ScanContents : CreatePage(1, TitleA, content, <<>>)

NextScan == ScanPage \/ \E t \in tasks : Settle(t)

SpecScan == Init /\ [][NextScan]_vars

\* the first position from j on where d occurs in s, 0 when there is none
RECURSIVE FirstAt(_, _, _)
FirstAt(s, j, d) ==
    IF j > Len(s) THEN 0
    ELSE IF StartsAt(s, j, d) THEN j ELSE FirstAt(s, j + 1, d)

\* a delimiter of exactly n characters c stands at position i of s
Times(c, n) == [k \in 1..n |-> c]

DelimiterAt(s, i, c, n) ==
    /\ StartsAt(s, i, Times(c, n))
    /\ i = 1 \/ s[i - 1] # c
    /\ i + n > Len(s) \/ s[i + n] # c

\* the position after the fenced block that opens at i with fence f, 0 when
\* none does
FenceEnd(s, i, f) ==
    IF DelimiterAt(s, i, f, 3) /\ DelimiterAt(s, FirstAt(s, i + 3, Times(f, 3)), f, 3)
    THEN FirstAt(s, i + 3, Times(f, 3)) + 3
    ELSE 0

\* the position after the inline code span that opens at i, 0 when none does
DoubleEnd(s, i) ==
    IF DelimiterAt(s, i, BT, 2)
       /\ DelimiterAt(s, i + 2 + RunLen(NotBacktick, s, i + 2), BT, 2)
    THEN i + 4 + RunLen(NotBacktick, s, i + 2)
    ELSE 0

SingleEnd(s, i) ==
    IF DelimiterAt(s, i, BT, 1)
       /\ DelimiterAt(s, i + 1 + RunLen(NotBacktickNorNewline, s, i + 1), BT, 1)
    THEN i + 2 + RunLen(NotBacktickNorNewline, s, i + 1)
    ELSE 0

\* the position after the code region of s that opens at i, 0 when none
\* does; atStart: i is the start of a line
RegionEnd(s, i, atStart) ==
    IF atStart /\ StartsAt(s, i, <<" ", " ", " ", " ">>) THEN i + RunLen(NotNewline, s, i)
    ELSE IF FenceEnd(s, i, BT) # 0 THEN FenceEnd(s, i, BT)
    ELSE IF FenceEnd(s, i, "~") # 0 THEN FenceEnd(s, i, "~")
    ELSE IF DoubleEnd(s, i) # 0 THEN DoubleEnd(s, i)
    ELSE SingleEnd(s, i)

\* the positions of s that lie in a code region, reading s from the left:
\* the region that opens first is the one that counts
RECURSIVE CodeFrom(_, _, _, _)
CodeFrom(s, i, atStart, acc) ==
    IF i > Len(s) THEN acc
    ELSE IF RegionEnd(s, i, atStart) # 0
    THEN CodeFrom(s, RegionEnd(s, i, atStart), FALSE, acc \cup (i..(RegionEnd(s, i, atStart) - 1)))
    ELSE CodeFrom(s, i + 1, s[i] = NL, acc)

Code(s) == CodeFrom(s, 1, TRUE, {})

\* text is written as a link at some position of s that is not in code
WrittenOutsideCode(s, text) ==
    \E i \in (1..Len(s)) \ Code(s) :
        /\ PatternAt(s, i).ok
        /\ StripLeadingBrackets(Trim(PatternAt(s, i).cap)) = text

\* C31: extractLinks never returns a link written inside a fenced code block,
\* an inline code span or a line indented by four spaces: every link in the
\* forward set of a page is written in its content outside of code.
C31_NoLinkFromCode ==
    \A k \in DOMAIN pages : \A i \in 1..Len(getLinks(Mem, k)) :
        WrittenOutsideCode(PageOf(Mem, k).content, getLinks(Mem, k)[i])

\* a well-formed link record
WellFormed(text) ==
    /\ text # <<>>
    /\ ~IsSpace(Head(text)) /\ ~IsSpace(text[Len(text)])
    /\ Head(text) # "["
    /\ ~Contains(text, NL)

\* the positions of the matches of the link pattern in s from i on, taken
\* from the left without overlap
RECURSIVE MatchesFrom(_, _)
MatchesFrom(s, i) ==
    IF i > Len(s) THEN {}
    ELSE IF PatternAt(s, i).ok THEN {i} \cup MatchesFrom(s, PatternAt(s, i).end)
    ELSE MatchesFrom(s, i + 1)

\* the positions of s where text is written as a link
WrittenAt(s, text) ==
    {i \in MatchesFrom(s, 1) : StripLeadingBrackets(Trim(PatternAt(s, i).cap)) = text}

\* text1 is first written in s before text2 is
WrittenBefore(s, text1, text2) ==
    \E i \in WrittenAt(s, text1) : \A j \in WrittenAt(s, text2) : i < j

InWrittenOrder(s, links) ==
    \A i, j \in 1..Len(links) : i < j => WrittenBefore(s, links[i], links[j])

\* C32: every entry of every forward set is a well-formed link record (not
\* empty, no white space at either end, no leading bracket, no newline), and
\* the list has no duplicates and is in the order of first occurrence.
C32_LinksAreWellFormed ==
    \A k \in DOMAIN pages :
        /\ \A i \in 1..Len(getLinks(Mem, k)) : WellFormed(getLinks(Mem, k)[i])
        /\ NoRepeat(getLinks(Mem, k))
        /\ InWrittenOrder(removeCodeBlocks(PageOf(Mem, k).content), getLinks(Mem, k))

\* ------------------------------------------------------------------------
\* createWiki({ linkPattern }) (wiki.ts 25-58)
\* ------------------------------------------------------------------------

\* the number of pieces the source of a link pattern is made of
MaxPattern == 4

BS == "\\"

PatternTokens ==
    {<<"(">>, <<")">>, <<BS, "(">>, <<BS, ")">>, <<"(", "?", ":">>, <<"[", "(", "]">>, <<"a">>}

\* the source of a regular expression read from position i on: whether it is
\* one, and the number of its capture groups; depth is the number of groups
\* that are open
RECURSIVE ParseFrom(_, _, _, _)
ParseFrom(src, i, depth, groups) ==
    IF i > Len(src) THEN [ok |-> depth = 0, groups |-> groups]
    ELSE IF src[i] = BS
    THEN IF i = Len(src) THEN [ok |-> FALSE, groups |-> groups]
         ELSE ParseFrom(src, i + 2, depth, groups)
    ELSE IF src[i] = "["
    THEN IF FirstAt(src, i + 1, <<"]">>) = 0 THEN [ok |-> FALSE, groups |-> groups]
         ELSE ParseFrom(src, FirstAt(src, i + 1, <<"]">>) + 1, depth, groups)
    ELSE IF StartsAt(src, i, <<"(", "?", ":">>) THEN ParseFrom(src, i + 3, depth + 1, groups)
    ELSE IF src[i] = "(" THEN ParseFrom(src, i + 1, depth + 1, groups + 1)
    ELSE IF src[i] = ")"
    THEN IF depth = 0 THEN [ok |-> FALSE, groups |-> groups]
         ELSE ParseFrom(src, i + 1, depth - 1, groups)
    ELSE ParseFrom(src, i + 1, depth, groups)

CaptureGroups(src) == ParseFrom(src, 1, 0, 0).groups

\* the sources of the RegExp objects given as linkPattern
PatternSources ==
    {src \in {Flatten(ts) : ts \in UNION {[1..n -> PatternTokens] : n \in 1..MaxPattern}} :
        ParseFrom(src, 1, 0, 0).ok}

\* /\([^?]/.test(options.linkPattern.source)
hasCapture(source) == \E i \in 1..(Len(source) - 1) : source[i] = "(" /\ source[i + 1] # "?"

\* createWiki({ linkPattern: new RegExp(source, 'g') }): the validation of the
\* options throws, or the wiki is made
CreateWiki(source) ==
    /\ last.op = "none"
    /\ Commit(Mem, tasks, storage,
              Call("createWiki", source, "none",
                   IF hasCapture(source) THEN "settled" ELSE "rejected", <<>>))
    /\ UNCHANGED <<removed, clock>>

NextPattern == \E source \in PatternSources : CreateWiki(source)

SpecPattern == Init /\ [][NextPattern]_vars

\* C33: a link pattern without a capture group is rejected when the wiki is
\* constructed.
C33_PatternWithoutGroupIsRejected ==
    (last.op = "createWiki" /\ CaptureGroups(last.id) = 0) => last.status = "rejected"

\* ------------------------------------------------------------------------
\* validatePageData (wiki.ts 89-102)
\* ------------------------------------------------------------------------

\* data.title of a createPage call that gives no usable title: none at all,
\* the empty string, white space only
InvalidTitles == {NoValue, <<>>, <<" ">>, <<" ", NL>>}

\* the class of the error validatePageData throws for data.title, <<>> when it
\* throws none
validatePageData(title) ==
    IF title = NoValue THEN <<"Error">>
    ELSE IF Trim(title) = <<>> THEN <<"Error">>
    ELSE <<>>

\* createPage with a title that validatePageData refuses: it throws at once
CreatePageInvalid(cap, title) ==
    /\ CanCall(cap)
    /\ validatePageData(title) # <<>>
    /\ Commit(Mem, tasks, storage,
              Call("create", title, "none", "rejected", validatePageData(title)))
    /\ removed' = Age(removed, pages')
    /\ clock' = clock + 1

NextValidate ==
    \/ Calls(1)
    \/ \E title \in InvalidTitles : CreatePageInvalid(1, title)
    \/ Resumes

SpecValidate == Init /\ [][NextValidate]_vars

\* the classes an instance of ValidationError belongs to (errors.ts 4-33)
ValidationErrors == {<<"ValidationError">>}

\* C34: createPage rejects a missing, empty or white-space-only title with a
\* ValidationError, and the rejected call leaves the wiki unchanged.
C34_InvalidTitleIsValidationError ==
    [][(/\ clock' # clock
        /\ last'.op = "create" /\ last'.status = "rejected"
        /\ last'.id \in InvalidTitles)
          => (last'.res \in ValidationErrors /\ Snapshot' = Snapshot)]_vars

\* updatePage(id, ...) is called in this step
UpdateStep(id) ==
    /\ clock' # clock
    /\ last'.op = "update" /\ last'.status = "pending" /\ last'.id = id

\* C35: updatePage(id, {content}) changes the reverse index only through id's
\* own outgoing links: for every identifier x, getBacklinks(x) after the call
\* differs from before at most by the presence of id.
C35_UpdateKeepsOtherBacklinks ==
    [][\A id \in DOMAIN pages :
           UpdateStep(id) =>
               \A x \in DOMAIN backlinkIndex \cup DOMAIN backlinkIndex' :
                   getBacklinks(Mem', x) \ {id} = getBacklinks(Mem, x) \ {id}]_vars

\* this step moves the page of the renamePage call t to its new id
MoveStep(t) ==
    /\ t.op = "rename" /\ t.mode = "updateId" /\ t.pc = "final"
    /\ t.id \in DOMAIN pages /\ t.id \notin DOMAIN pages'
    /\ t.newId \in DOMAIN pages'

\* the pages of sources after the page id has become newId
Moved(sources, id, newId) ==
    IF id \in sources THEN (sources \ {id}) \cup {newId} ELSE sources

\* C36: renamePage with updateId loses no backlink: the pages that linked to
\* the new identifier before the rename, and those that linked to the old one,
\* are in getBacklinks(newId) afterwards.
C36_RenameKeepsBacklinks ==
    [][\A t \in tasks' :
           MoveStep(t) =>
               Moved(getBacklinks(Mem, t.newId) \cup getBacklinks(Mem, t.id), t.id, t.newId)
                   \subseteq getBacklinks(Mem', t.newId)]_vars

\* C37: once every call has returned, the pages held by the storage adapter
\* are the pages of the page table: the same ids, each with the same title and
\* content.  Stated for the runs in which no fallback id has been minted.
C37_StoreIsPageTable ==
    (Settled /\ nextFallbackId = 1) =>
        /\ DOMAIN storage = DOMAIN pages
        /\ \A k \in DOMAIN pages :
               /\ storage[k].id = k
               /\ storage[k].title = PageOf(Mem, k).title
               /\ storage[k].content = PageOf(Mem, k).content

\* the renamePage call t, suspended in its loop over the linking pages, resumes
\* in this step and moves its page
MovesAfterAwait(t) ==
    /\ t.op = "rename" /\ t.pc = "loop"
    /\ \E u \in tasks' : u.op = "rename" /\ u.t0 = t.t0 /\ u.pc = "final"

\* C38: no interleaving makes a page vanish or reappear without a matching
\* deletePage or createPage: when a renamePage with updateId that was awaiting
\* storage moves its page, a page that took the new identifier meanwhile is
\* not overwritten, and a page deleted meanwhile is not put back.  Stated for
\* the runs in which no fallback id has been minted.
C38_RenameOverwritesNothing ==
    [][\A t \in tasks :
           (MovesAfterAwait(t) /\ nextFallbackId' = 1) =>
               /\ \A k \in DOMAIN pages \ {t.id} : k \in DOMAIN pages' /\ pages'[k] = pages[k]
               /\ t.id \notin DOMAIN pages => DOMAIN pages' = DOMAIN pages]_vars

\* the pages whose stored content call t has changed when it returns: its own
\* page, and the pages renamePage rewrote in its loop
ChangedBy(t) ==
    {IF t.op = "rename" THEN heap[t.oid].id ELSE t.id} \cup (t.rewritten \ {t.id})

Announced(l, id) == \E i \in 1..Len(l.emitted) : l.emitted[i].id = id

\* C39: listeners are called on each change: when createPage, updatePage,
\* deletePage or renamePage returns, an event has been delivered that
\* identifies each page whose stored content the call changed, the pages
\* rewritten by renamePage with updateId included.
C39_EveryChangeIsAnnounced ==
    [][\A t \in tasks :
           (Returns(t) /\ t.op \in {"create", "update", "delete", "rename"}) =>
               \A id \in ChangedBy(t) : Announced(last', id)]_vars

====
